---------------------------- MODULE Spec2Model ----------------------------
(***************************************************************************)
(* A model of the bit-banged DS1302 driver of raspi_peri/rtc/ds1302.py.    *)
(*                                                                         *)
(* Five specifications over one set of variables:                          *)
(*   Spec       the driver at the granularity of one GPIO call per step,   *)
(*              driving a DS1302 that shifts data in on rising clock edges *)
(*              and out on falling clock edges while reset is high, over a *)
(*              pin-control channel that never fails;                      *)
(*   SpecFault  the same over a channel whose calls may fail;              *)
(*   SpecShared two threads calling data operations on one instance with   *)
(*              no lock around the calls, switched between GPIO calls;     *)
(*   SpecCodec  write_datetime's encoding and read_datetime's decoding of  *)
(*              the register frame, as pure functions over bounded inputs; *)
(*   SpecLoop   _write_byte's data levels looped back into _read_byte.     *)
(*                                                                         *)
(* Environment assumptions (code outside this repository):                 *)
(*   - GPIOTimingContentManager(gpio, start, end) follows Python's context *)
(*     manager protocol: __enter__ calls start(gpio), __exit__ calls       *)
(*     end(gpio) and does not swallow the exception of the body.           *)
(*   - CPython 3 strftime/strptime (with the ISO weekday directive %u).    *)
(*   - a GPIO call either returns, or raises; a call that raises may or    *)
(*     may not have taken effect on the pin (a lost reply).                *)
(***************************************************************************)
EXTENDS Integers, Sequences, FiniteSets, TLC

\* ------------------------------------------------------------------------
\* Class constants (ds1302.py lines 8-17)
\* ------------------------------------------------------------------------
REG_SIZE == 7
RAM_SIZE == 31

WP_REG_WRITE == 142
CHR_REG_WRITE == 144
REG_BURST_READ == 191
REG_BURST_WRITE == 190
RAM_BURST_READ == 255
RAW_BURST_WRITE == 254

\* '%S %M %H %d %m %u %y'
DT_STR_FMT == <<"S", "M", "H", "d", "m", "u", "y">>

\* ------------------------------------------------------------------------
\* datetime.datetime: the proleptic Gregorian calendar of CPython
\* ------------------------------------------------------------------------
IsLeap(y) == (y % 4 = 0) /\ ((y % 100 # 0) \/ (y % 400 = 0))

DaysInMonth(y, m) ==
    IF m = 2 THEN (IF IsLeap(y) THEN 29 ELSE 28)
    ELSE IF m \in {4, 6, 9, 11} THEN 30 ELSE 31

RECURSIVE DaysBeforeMonth(_, _)
DaysBeforeMonth(y, m) ==
    IF m = 1 THEN 0 ELSE DaysBeforeMonth(y, m - 1) + DaysInMonth(y, m - 1)

DaysBeforeYear(y) ==
    ((y - 1) * 365) + ((y - 1) \div 4) - ((y - 1) \div 100) + ((y - 1) \div 400)

\* datetime.toordinal(): 0001-01-01 is day 1, a Monday
Ordinal(dt) == DaysBeforeYear(dt.year) + DaysBeforeMonth(dt.year, dt.month) + dt.day

\* datetime.isoweekday(): Monday 1 .. Sunday 7, what strftime('%u') prints
IsoWeekday(dt) == ((Ordinal(dt) + 6) % 7) + 1

DateTime(y, mo, d, h, mi, s) ==
    [year |-> y, month |-> mo, day |-> d, hour |-> h, minute |-> mi, second |-> s]

\* the datetime constructor's range checks (it raises ValueError otherwise)
ValidDateTime(dt) ==
    /\ dt.year \in 1..9999
    /\ dt.month \in 1..12
    /\ dt.day \in 1..DaysInMonth(dt.year, dt.month)
    /\ dt.hour \in 0..23
    /\ dt.minute \in 0..59
    /\ dt.second \in 0..59

\* ------------------------------------------------------------------------
\* write_datetime's encoding (ds1302.py line 168).  A text is a sequence of
\* character codes: 0..9 for '0'..'9', 10..15 for 'a'..'f'.
\* ------------------------------------------------------------------------
TwoDigits(v) == <<(v \div 10) % 10, v % 10>>

\* dt.strftime(directive)
StrfField(dt, d) ==
    CASE d = "S" -> TwoDigits(dt.second)
      [] d = "M" -> TwoDigits(dt.minute)
      [] d = "H" -> TwoDigits(dt.hour)
      [] d = "d" -> TwoDigits(dt.day)
      [] d = "m" -> TwoDigits(dt.month)
      [] d = "u" -> <<IsoWeekday(dt)>>
      [] d = "y" -> TwoDigits(dt.year % 100)

\* int("0x{}".format(i), 16)
RECURSIVE HexInt(_)
HexInt(txt) ==
    IF txt = <<>> THEN 0
    ELSE (16 * HexInt(SubSeq(txt, 1, Len(txt) - 1))) + txt[Len(txt)]

\* regs = [int("0x{}".format(i), 16) for i in dt.strftime(FMT).split()] + [0] * 2
EncodeRegs(dt) ==
    [j \in 1..REG_SIZE |-> HexInt(StrfField(dt, DT_STR_FMT[j]))] \o <<0, 0>>

\* ------------------------------------------------------------------------
\* read_datetime's decoding (ds1302.py line 158)
\* ------------------------------------------------------------------------
\* "{:d}".format(x): what a decimal rendering of the byte would give
DecFormat(x) ==
    IF x < 10 THEN <<x>>
    ELSE IF x < 100 THEN <<x \div 10, x % 10>>
    ELSE <<x \div 100, (x \div 10) % 10, x % 10>>

\* "{:x}".format(x) for a byte: lower-case hex, no leading zero
HexFormat(x) == IF x < 16 THEN <<x>> ELSE <<x \div 16, x % 16>>

IsDigits(txt) == \A j \in 1..Len(txt) : txt[j] \in 0..9

\* _strptime's regular expression of each directive, on one token
DirMatch(d, t) ==
    /\ IsDigits(t)
    /\ CASE d = "S" -> \/ Len(t) = 1
                       \/ Len(t) = 2 /\ (t[1] <= 5 \/ (t[1] = 6 /\ t[2] <= 1))
         [] d = "M" -> \/ Len(t) = 1
                       \/ Len(t) = 2 /\ t[1] <= 5
         [] d = "H" -> \/ Len(t) = 1
                       \/ Len(t) = 2 /\ (t[1] <= 1 \/ (t[1] = 2 /\ t[2] <= 3))
         [] d = "d" -> \/ Len(t) = 1 /\ t[1] >= 1
                       \/ Len(t) = 2 /\ \/ t[1] = 3 /\ t[2] <= 1
                                        \/ t[1] \in {1, 2}
                                        \/ t[1] = 0 /\ t[2] >= 1
         [] d = "m" -> \/ Len(t) = 1 /\ t[1] >= 1
                       \/ Len(t) = 2 /\ \/ t[1] = 1 /\ t[2] <= 2
                                        \/ t[1] = 0 /\ t[2] >= 1
         [] d = "u" -> Len(t) = 1 /\ t[1] \in 1..7
         [] d = "y" -> Len(t) = 2

\* int(token)
RECURSIVE DecInt(_)
DecInt(txt) ==
    IF txt = <<>> THEN 0
    ELSE (10 * DecInt(SubSeq(txt, 1, Len(txt) - 1))) + txt[Len(txt)]

\* _strptime's century rule for %y: 69..99 are 19xx, 0..68 are 20xx
YearOf(y) == IF y <= 68 THEN 2000 + y ELSE 1900 + y

ValueError == [error |-> "ValueError"]

\* datetime.datetime.strptime(" ".join(tokens), DT_STR_FMT); the weekday
\* token only has to match, the date decides the weekday of the result
Strptime(toks) ==
    IF \E j \in 1..REG_SIZE : ~DirMatch(DT_STR_FMT[j], toks[j])
    THEN ValueError
    ELSE LET dt == DateTime(YearOf(DecInt(toks[7])), DecInt(toks[5]), DecInt(toks[4]),
                            DecInt(toks[3]), DecInt(toks[2]), DecInt(toks[1]))
         IN  IF ValidDateTime(dt) THEN dt ELSE ValueError

DecodeRegsBug(rs) == Strptime([j \in 1..REG_SIZE |-> DecFormat(rs[j])])

DecodeRegs(rs) == Strptime([j \in 1..REG_SIZE |-> HexFormat(rs[j])])


\* ------------------------------------------------------------------------
\* State
\* ------------------------------------------------------------------------
VARIABLES
    mode,      \* GPIO backend: each pin's configuration, "unset" | "in" | "out"
    level,     \* GPIO backend: each pin's output latch, 0 | 1
    chip,      \* DS1302: bit counter, shift register, read bit counter, output level
    regs,      \* DS1302: clock/calendar registers 1..7, control 8, trickle charger 9
    ram,       \* DS1302: the 31 RAM cells
    wire,      \* the bytes the host clocked out since reset rose, while it is high
    txlog,     \* the wire logs of the transactions the current operation closed
    life,      \* the instance: "uninit" | "init" | "ready" | "failed"
    ncleanup,  \* how many times __del__ has called gpio.cleanup
    op,        \* the method that is running, or "none"
    arg,       \* its argument (dt of write_datetime, ram of write_ram)
    tx,        \* which with-block of the method is running (__init__ has two)
    phase,     \* "idle" | "setup" | "start" | "write" | "read" | "end" | "exit"
    k,         \* the next GPIO call within the phase
    bit,       \* the loop index of _write_byte / _read_byte
    byte,      \* the local `byte` of _write_byte / _read_byte
    wq,        \* the bytes the with-body has still to pass to _write_byte
    nrd,       \* the _read_byte calls the with-body has still to make
    rx,        \* the bytes the with-body has read so far (regs / ram)
    exc,       \* where the exception in flight was raised, or "none"
    begun,     \* _start_tx has returned in this with-block
    ends,      \* how many times _end_tx was entered in this with-block
    issued,    \* GPIO calls the current operation has issued
    result,    \* what the last operation returned or raised
    lastdt,    \* the dt of the last write_datetime that returned
    ram0,      \* the chip's RAM when the current operation was called
    nops,      \* operations called so far
    nfaults,   \* GPIO calls that raised so far
    channel,   \* the pin-control channel: "reliable" | "failing" | "shared"
    pinlog,    \* what the pins saw of the current operation: edges, calls
    parked,    \* SpecShared: the frame of the thread that is not running
    nswitch,   \* SpecShared: thread switches so far
    cstage,    \* SpecCodec: "off" | "date" | "encoded" | "frame" | "decoded"
    cfrom,     \* SpecCodec: "date" | "frame", what the run started from
    cdt,       \* SpecCodec: the datetime given to write_datetime's encoding
    cframe,    \* SpecCodec: the 7 register bytes
    cres,      \* SpecCodec: what read_datetime's decoding gave
    lstage,    \* SpecLoop: "off" | "write" | "read" | "done"
    lin,       \* SpecLoop: the byte given to _write_byte
    lbyte,     \* SpecLoop: the local `byte` of the running method
    lbit,      \* SpecLoop: the loop index
    lline      \* SpecLoop: the data levels driven, one per rising clock edge

busvars == <<mode, level, chip, regs, ram, wire, txlog, life, ncleanup, op, arg, tx,
             phase, k, bit, byte, wq, nrd, rx, exc, begun, ends, issued, result,
             lastdt, ram0, nops, nfaults, channel, pinlog, parked, nswitch>>
codecvars == <<cstage, cfrom, cdt, cframe, cres>>
loopvars == <<lstage, lin, lbyte, lbit, lline>>
vars == <<busvars, codecvars, loopvars>>

\* ------------------------------------------------------------------------
\* Bounds and inputs of the model
\* ------------------------------------------------------------------------
\* data operations called in one run over the reliable channel
MaxOps == 2
\* data operations called in one run over the failing channel
MaxFaultOps == 1
\* GPIO calls that fail in one run
MaxFaults == 1
\* explicit __del__ calls in one run
MaxTeardowns == 1
\* thread switches in one run of two callers
MaxSwitches == 2
\* data operations called in one run of two callers
MaxSharedOps == 2

NoDate == DateTime(0, 0, 0, 0, 0, 0)

\* the arguments the callers pass; two of each kind over the reliable channel,
\* one otherwise.  2024-01-15 10:30:45 is the Monday of the end-to-end scenario
DateInputs ==
    IF channel = "reliable"
    THEN {DateTime(2024, 1, 15, 10, 30, 45), DateTime(2005, 12, 31, 23, 59, 58)}
    ELSE {DateTime(2024, 1, 15, 10, 30, 45)}

Block(n) == [j \in 1..n |-> (7 * j + 3) % 256]
RamInputs == IF channel = "reliable" THEN {Block(10), Block(40)} ELSE {Block(10)}

Pow2(n) == 2 ^ n
Min(a, b) == IF a < b THEN a ELSE b

\* ------------------------------------------------------------------------
\* The GPIO backend (raspi_io.GPIO, used through gpio.setup / output / input /
\* cleanup) and the calls the driver makes on it
\* ------------------------------------------------------------------------
Pins == {"clk", "io", "rst"}

Setup(ps, d, v) == [fn |-> "setup", pins |-> ps, dir |-> d, val |-> v]
Output(p, v) == [fn |-> "output", pins |-> {p}, dir |-> "out", val |-> v]
Input(p) == [fn |-> "input", pins |-> {p}, dir |-> "in", val |-> -1]
Cleanup(ps) == [fn |-> "cleanup", pins |-> ps, dir |-> "unset", val |-> 0]

\* the backend refuses to drive a pin that is not an output, or to sample a pin
\* that is not set up
Accepted(c) ==
    CASE c.fn = "output" -> \A p \in c.pins : mode[p] = "out"
      [] c.fn = "input" -> \A p \in c.pins : mode[p] # "unset"
      [] OTHER -> TRUE

ModeAfter(c) ==
    IF c.fn \in {"setup", "cleanup"}
    THEN [p \in Pins |-> IF p \in c.pins THEN c.dir ELSE mode[p]]
    ELSE mode

LevelAfter(c) ==
    IF c.fn \in {"output", "cleanup"} \/ (c.fn = "setup" /\ c.val \in {0, 1})
    THEN [p \in Pins |-> IF p \in c.pins THEN c.val ELSE level[p]]
    ELSE level

\* ------------------------------------------------------------------------
\* The DS1302 on the other end of the three wires: selected while reset is
\* high, it shifts a bit in on each rising clock edge (least significant bit
\* first) and, after a read command, a bit out on each falling clock edge
\* ------------------------------------------------------------------------
ChipIdle == [n |-> 0, sr |-> 0, rd |-> 0, q |-> 0]

ReadMode(w) == Len(w) >= 1 /\ w[1] % 2 = 1

\* writes are refused while bit 7 of the control register (write protect) is
\* set, except the write of the control register itself
WriteEnabled(r) == r[8] < 128

\* the registers after data byte number j (1, 2, ...) of command cmd
RegsAfter(cmd, j, b) ==
    CASE cmd = REG_BURST_WRITE /\ j <= 8 /\ (WriteEnabled(regs) \/ j = 8) ->
             [regs EXCEPT ![j] = b]
      [] cmd # REG_BURST_WRITE /\ cmd >= 128 /\ cmd < 192 /\ cmd % 2 = 0 /\ j = 1
           /\ ((cmd \div 2) % 32) <= 8
           /\ (WriteEnabled(regs) \/ (cmd \div 2) % 32 = 7) ->
             [regs EXCEPT ![((cmd \div 2) % 32) + 1] = b]
      [] OTHER -> regs

RamAfter(cmd, j, b) ==
    IF cmd = RAW_BURST_WRITE /\ j <= RAM_SIZE /\ WriteEnabled(regs)
    THEN [ram EXCEPT ![j] = b]
    ELSE ram

\* byte number i (0, 1, ...) of the burst a read command shifts out
ReadData(cmd, i) ==
    CASE cmd = REG_BURST_READ /\ i < 8 -> regs[i + 1]
      [] cmd = RAM_BURST_READ /\ i < RAM_SIZE -> ram[i + 1]
      [] OTHER -> 0

BitOf(b, i) == (b \div Pow2(i)) % 2

\* the level the host samples on the data line: the chip's output after a read
\* command, the line's pull-down otherwise
LineIn == IF level.rst = 1 /\ ReadMode(wire) THEN chip.q ELSE 0

\* the chip and the wire log after the pins went from levels l0 to l1, the data
\* pin being configured m
ChipStep(l0, l1, m) ==
    LET same == [chip |-> chip, regs |-> regs, ram |-> ram, wire |-> wire, txlog |-> txlog]
    IN
    CASE l0.rst = 0 /\ l1.rst = 1 ->
             [same EXCEPT !.chip = ChipIdle, !.wire = <<>>]
      [] l0.rst = 1 /\ l1.rst = 0 ->
             [same EXCEPT !.chip = ChipIdle, !.wire = <<>>, !.txlog = Append(txlog, wire)]
      [] l0.rst = 1 /\ l1.rst = 1 /\ l0.clk = 0 /\ l1.clk = 1 /\ ~ReadMode(wire) ->
             LET lvl == IF m = "out" THEN l1.io ELSE 0
                 sr == chip.sr + (lvl * Pow2(chip.n))
             IN  IF chip.n < 7
                 THEN [same EXCEPT !.chip = [chip EXCEPT !.n = chip.n + 1, !.sr = sr]]
                 ELSE [chip |-> [chip EXCEPT !.n = 0, !.sr = 0],
                       regs |-> IF wire = <<>> THEN regs ELSE RegsAfter(wire[1], Len(wire), sr),
                       ram |-> IF wire = <<>> THEN ram ELSE RamAfter(wire[1], Len(wire), sr),
                       wire |-> Append(wire, sr),
                       txlog |-> txlog]
      [] l0.rst = 1 /\ l1.rst = 1 /\ l0.clk = 1 /\ l1.clk = 0 /\ ReadMode(wire) ->
             [same EXCEPT !.chip = [chip EXCEPT
                 !.q = BitOf(ReadData(wire[1], chip.rd \div 8), chip.rd % 8),
                 !.rd = chip.rd + 1]]
      [] OTHER -> same

\* ------------------------------------------------------------------------
\* The pins as a logic analyser sees them during one operation: clock and
\* reset edges, the calls that drive or sample the data pin, and what happened
\* since the last of those calls
\* ------------------------------------------------------------------------
NoLog == [rise |-> 0, fall |-> 0, sel |-> 0, desel |-> 0, samp |-> 0, drive |-> 0,
          mark |-> "none", since |-> <<>>]

IsSample(c) == c.fn = "input" /\ "io" \in c.pins
IsDrive(c) == c.fn = "output" /\ "io" \in c.pins

\* the edges and data-pin configurations of call c, in the order of the wire
EventsOf(c, l0, l1) ==
    (IF c.fn = "setup" /\ "io" \in c.pins THEN <<c.dir>> ELSE <<>>)
    \o (IF l0.rst = 0 /\ l1.rst = 1 THEN <<"select">> ELSE <<>>)
    \o (IF l0.clk = 0 /\ l1.clk = 1 THEN <<"rise">> ELSE <<>>)
    \o (IF l0.clk = 1 /\ l1.clk = 0 THEN <<"fall">> ELSE <<>>)
    \o (IF l0.rst = 1 /\ l1.rst = 0 THEN <<"deselect">> ELSE <<>>)

Count(b) == IF b THEN 1 ELSE 0

LogAfter(c, applied) ==
    LET l1 == IF applied THEN LevelAfter(c) ELSE level
    IN  [rise |-> pinlog.rise + Count(level.clk = 0 /\ l1.clk = 1),
         fall |-> pinlog.fall + Count(level.clk = 1 /\ l1.clk = 0),
         sel |-> pinlog.sel + Count(level.rst = 0 /\ l1.rst = 1),
         desel |-> pinlog.desel + Count(level.rst = 1 /\ l1.rst = 0),
         samp |-> pinlog.samp + Count(IsSample(c)),
         drive |-> pinlog.drive + Count(IsDrive(c)),
         mark |-> IF IsSample(c) THEN "sample"
                  ELSE IF IsDrive(c) THEN "drive" ELSE pinlog.mark,
         since |-> IF IsSample(c) \/ IsDrive(c) THEN <<>>
                   ELSE pinlog.since \o EventsOf(c, level, l1)]

\* the log is kept for the operation of a single caller
Logging == op # "none" /\ channel # "shared"

\* GPIO call c issued; `applied` says whether it took effect on the pins
PinEffect(c, applied) ==
    /\ pinlog' = IF Logging THEN LogAfter(c, applied) ELSE pinlog
    /\ IF applied
       THEN LET e == ChipStep(level, LevelAfter(c), ModeAfter(c)["io"])
            IN  /\ mode' = ModeAfter(c)
                /\ level' = LevelAfter(c)
                /\ chip' = e.chip
                /\ regs' = e.regs
                /\ ram' = e.ram
                /\ wire' = e.wire
                /\ txlog' = e.txlog
       ELSE UNCHANGED <<mode, level, chip, regs, ram, wire, txlog>>

\* the driver issues GPIO call c, which returns
Gpio(c) == PinEffect(c, TRUE) /\ issued' = issued + 1

\* ------------------------------------------------------------------------
\* The driver: the GPIO calls of each method, in program order
\* ------------------------------------------------------------------------
\* __init__: self.gpio.setup([clk, rst], GPIO.OUT, initial=GPIO.LOW)
init_setup == Setup({"clk", "rst"}, "out", 0)

start_tx_bug == <<Output("clk", 0), Output("rst", 0)>>

start_tx == <<Output("clk", 0), Output("rst", 1)>>

end_tx_bug == <<Output("rst", 0), Setup({"io"}, "in", -1), Output("clk", 0)>>

end_tx_clk == <<Setup({"io"}, "in", -1), Output("rst", 0), Output("rst", 0)>>

end_tx == <<Setup({"io"}, "in", -1), Output("clk", 0), Output("rst", 0)>>

\* _write_byte: the setup, then three calls per loop iteration
write_byte_setup == Setup({"io"}, "out", -1)

\* byte & 0x01
WriteLevel(b) == b % 2

\* byte >>= 1
ShiftRight(b) == b \div 2

write_bit_bug(b) == <<Output("clk", 0), Output("clk", 1), Output("io", WriteLevel(b))>>

write_bit(b) == <<Output("clk", 0), Output("io", WriteLevel(b)), Output("clk", 1)>>

\* _read_byte: the setup, then three calls per loop iteration
read_byte_setup_bug == Setup({"io"}, "out", -1)

read_byte_setup == Setup({"io"}, "in", -1)

read_bit_bug == <<Output("clk", 0), Output("clk", 1), Input("io")>>

read_bit == <<Output("clk", 1), Output("clk", 0), Input("io")>>

\* byte |= ((2 ** i) * bit)
AccumulateBug(b, i, v) == (2 * b) + v

Accumulate(b, i, v) == IF BitOf(b, i) = 1 THEN b ELSE b + (Pow2(i) * v)

\* __del__: self.gpio.cleanup([io, clk, rst])
del_cleanup == Cleanup({"io", "clk", "rst"})

\* the with-bodies: the bytes passed to _write_byte, then the number of
\* _read_byte calls
WriteProtectOffBug == [w |-> <<WP_REG_WRITE + 1, 0>>, r |-> 0]

WriteProtectOff == [w |-> <<WP_REG_WRITE, 0>>, r |-> 0]

ChargeOff == [w |-> <<CHR_REG_WRITE, 0>>, r |-> 0]

ReadRamBodyBug == [w |-> <<RAM_BURST_READ>>, r |-> RAM_SIZE + 1]

ReadRamBody == [w |-> <<RAM_BURST_READ>>, r |-> RAM_SIZE]

WriteRamCountBug(blk) == Len(blk)

\* min(len(ram), self.RAM_SIZE)
WriteRamCount(blk) == Min(Len(blk), RAM_SIZE)

WriteRamBody(blk) ==
    [w |-> <<RAW_BURST_WRITE>> \o [j \in 1..WriteRamCount(blk) |-> blk[j]], r |-> 0]

ReadDatetimeBody == [w |-> <<REG_BURST_READ>>, r |-> REG_SIZE]

WriteDatetimeBodyBug(dt) ==
    [w |-> <<REG_BURST_WRITE>> \o SubSeq(EncodeRegs(dt), 1, REG_SIZE), r |-> 0]

WriteDatetimeBody(dt) == [w |-> <<REG_BURST_WRITE>> \o EncodeRegs(dt), r |-> 0]

DataOps == {"read_ram", "write_ram", "read_datetime", "write_datetime"}

Body ==
    CASE op = "init" /\ tx = 1 -> WriteProtectOff
      [] op = "init" /\ tx = 2 -> ChargeOff
      [] op = "read_ram" -> ReadRamBody
      [] op = "write_ram" -> WriteRamBody(arg)
      [] op = "read_datetime" -> ReadDatetimeBody
      [] op = "write_datetime" -> WriteDatetimeBody(arg)

\* the GPIO call the driver is about to make
Pending ==
    CASE phase = "setup" -> init_setup
      [] phase = "start" -> start_tx[k]
      [] phase = "end" -> end_tx[k]
      [] phase = "write" -> IF k = 0 THEN write_byte_setup ELSE write_bit(byte)[k]
      [] phase = "read" -> IF k = 0 THEN read_byte_setup ELSE read_bit[k]

InCall == phase \in {"setup", "start", "write", "read", "end"}

\* where control goes when the with-body raises: __exit__ runs _end_tx
WithBodyRaisesBug == "exit"

WithBodyRaises == "end"

\* where control goes when __enter__ (_start_tx) or __exit__ (_end_tx) raises
WithFrameRaises == "exit"

codecfix == UNCHANGED <<codecvars, loopvars, channel, parked, nswitch>>
envfix == UNCHANGED <<life, ncleanup, op, arg, tx, result, lastdt, ram0, nops>>

\* the with-body goes on to its next statement: the next _write_byte, the next
\* _read_byte, or the end of the block, where __exit__ runs _end_tx
BodyNext(q, n) ==
    IF q # <<>>
    THEN /\ phase' = "write" /\ k' = 0 /\ bit' = 0
         /\ byte' = Head(q) /\ wq' = Tail(q) /\ nrd' = n
         /\ UNCHANGED ends
    ELSE IF n > 0
    THEN /\ phase' = "read" /\ k' = 0 /\ bit' = 0
         /\ byte' = 0 /\ wq' = q /\ nrd' = n - 1
         /\ UNCHANGED ends
    ELSE /\ phase' = "end" /\ k' = 1 /\ bit' = 0
         /\ byte' = 0 /\ wq' = q /\ nrd' = n
         /\ ends' = ends + 1

\* ------------------------------------------------------------------------
\* The driver: one step per GPIO call
\* ------------------------------------------------------------------------
NoArg == <<>>

\* the locals of a thread that is in no method
IdleFrame == [op |-> "none", arg |-> NoArg, tx |-> 0, phase |-> "idle", k |-> 0,
              bit |-> 0, byte |-> 0, wq |-> <<>>, nrd |-> 0, rx |-> <<>>,
              exc |-> "none", begun |-> FALSE, ends |-> 0, issued |-> 0, ram0 |-> <<>>]

NoResult == [op |-> "none", status |-> "none", value |-> <<>>]
IsError(v) == "error" \in DOMAIN v

InitRegs == <<0, 0, 18, 41, 2, 6, 32, 128, 92>>
InitRam == [j \in 1..RAM_SIZE |-> 200 + j]

BusInit ==
    /\ mode = [p \in Pins |-> "unset"]
    /\ level = [p \in Pins |-> 0]
    /\ chip = ChipIdle
    /\ regs = InitRegs
    /\ ram = InitRam
    /\ wire = <<>>
    /\ txlog = <<>>
    /\ life = "uninit"
    /\ ncleanup = 0
    /\ op = "none"
    /\ arg = NoArg
    /\ tx = 0
    /\ phase = "idle"
    /\ k = 0
    /\ bit = 0
    /\ byte = 0
    /\ wq = <<>>
    /\ nrd = 0
    /\ rx = <<>>
    /\ exc = "none"
    /\ begun = FALSE
    /\ ends = 0
    /\ issued = 0
    /\ result = NoResult
    /\ lastdt = NoDate
    /\ ram0 = <<>>
    /\ nops = 0
    /\ nfaults = 0
    /\ pinlog = NoLog
    /\ parked = IdleFrame
    /\ nswitch = 0

CodecOff == cstage = "off" /\ cfrom = "off" /\ cdt = NoDate /\ cframe = <<>> /\ cres = NoDate
LoopOff == lstage = "off" /\ lin = 0 /\ lbyte = 0 /\ lbit = 0 /\ lline = <<>>

Init == BusInit /\ channel = "reliable" /\ CodecOff /\ LoopOff

FaultInit == BusInit /\ channel = "failing" /\ CodecOff /\ LoopOff

\* a with-block is entered: __enter__ is about to run _start_tx
EnterWith ==
    /\ phase' = "start" /\ k' = 1 /\ bit' = 0 /\ byte' = 0
    /\ wq' = <<>> /\ nrd' = 0 /\ rx' = <<>> /\ exc' = "none"
    /\ begun' = FALSE /\ ends' = 0

\* DS1302(raspberry): __init__ starts (lines 30-35 touch no pin)
Construct ==
    /\ life = "uninit" /\ op = "none"
    /\ life' = "init" /\ op' = "init" /\ tx' = 1 /\ phase' = "setup"
    /\ UNCHANGED <<mode, level, chip, regs, ram, wire, txlog, ncleanup, arg, k, bit,
                   byte, wq, nrd, rx, exc, begun, ends, issued, result, lastdt, ram0,
                   nops, nfaults, pinlog>>
    /\ codecfix

\* __init__ line 38, then the first with-block is entered
InitSetup ==
    /\ phase = "setup" /\ Accepted(Pending)
    /\ Gpio(Pending)
    /\ EnterWith
    /\ UNCHANGED nfaults
    /\ envfix /\ codecfix

\* _start_tx, one call per step; when it has returned the with-body starts
StartTx ==
    /\ phase = "start" /\ Accepted(Pending)
    /\ Gpio(Pending)
    /\ IF k < Len(start_tx)
       THEN /\ k' = k + 1
            /\ UNCHANGED <<phase, bit, byte, wq, nrd, ends, begun>>
       ELSE /\ begun' = TRUE
            /\ BodyNext(Body.w, Body.r)
    /\ UNCHANGED <<rx, exc, nfaults>>
    /\ envfix /\ codecfix

\* _write_byte line 102
WriteByteSetup ==
    /\ phase = "write" /\ k = 0 /\ Accepted(Pending)
    /\ Gpio(Pending)
    /\ k' = 1
    /\ UNCHANGED <<phase, bit, byte, wq, nrd, rx, exc, begun, ends, nfaults>>
    /\ envfix /\ codecfix

\* _write_byte line 106
WriteBitClkLow ==
    /\ phase = "write" /\ k = 1 /\ Accepted(Pending)
    /\ Gpio(Pending)
    /\ k' = 2
    /\ UNCHANGED <<phase, bit, byte, wq, nrd, rx, exc, begun, ends, nfaults>>
    /\ envfix /\ codecfix

\* _write_byte lines 109-111
WriteBitData ==
    /\ phase = "write" /\ k = 2 /\ Accepted(Pending)
    /\ Gpio(Pending)
    /\ byte' = ShiftRight(byte)
    /\ k' = 3
    /\ UNCHANGED <<phase, bit, wq, nrd, rx, exc, begun, ends, nfaults>>
    /\ envfix /\ codecfix

\* _write_byte line 112, and the end of the loop body
WriteBitClkHigh ==
    /\ phase = "write" /\ k = 3 /\ Accepted(Pending)
    /\ Gpio(Pending)
    /\ IF bit < 7
       THEN /\ bit' = bit + 1 /\ k' = 1
            /\ UNCHANGED <<phase, byte, wq, nrd, ends>>
       ELSE BodyNext(wq, nrd)
    /\ UNCHANGED <<rx, exc, begun, nfaults>>
    /\ envfix /\ codecfix

\* _read_byte line 78
ReadByteSetup ==
    /\ phase = "read" /\ k = 0 /\ Accepted(Pending)
    /\ Gpio(Pending)
    /\ k' = 1
    /\ UNCHANGED <<phase, bit, byte, wq, nrd, rx, exc, begun, ends, nfaults>>
    /\ envfix /\ codecfix

\* _read_byte line 83
ReadBitClkHigh ==
    /\ phase = "read" /\ k = 1 /\ Accepted(Pending)
    /\ Gpio(Pending)
    /\ k' = 2
    /\ UNCHANGED <<phase, bit, byte, wq, nrd, rx, exc, begun, ends, nfaults>>
    /\ envfix /\ codecfix

\* _read_byte line 86
ReadBitClkLow ==
    /\ phase = "read" /\ k = 2 /\ Accepted(Pending)
    /\ Gpio(Pending)
    /\ k' = 3
    /\ UNCHANGED <<phase, bit, byte, wq, nrd, rx, exc, begun, ends, nfaults>>
    /\ envfix /\ codecfix

\* _read_byte lines 89-90, and the end of the loop body; after the eighth bit
\* the caller appends the byte to its list
ReadBitSample ==
    /\ phase = "read" /\ k = 3 /\ Accepted(Pending)
    /\ Gpio(Pending)
    /\ LET b == Accumulate(byte, bit, LineIn)
       IN  IF bit < 7
           THEN /\ byte' = b /\ bit' = bit + 1 /\ k' = 1
                /\ UNCHANGED <<phase, wq, nrd, ends, rx>>
           ELSE /\ rx' = Append(rx, b)
                /\ BodyNext(wq, nrd)
    /\ UNCHANGED <<exc, begun, nfaults>>
    /\ envfix /\ codecfix

\* _end_tx, one call per step
EndTx ==
    /\ phase = "end" /\ Accepted(Pending)
    /\ Gpio(Pending)
    /\ IF k < Len(end_tx)
       THEN k' = k + 1 /\ UNCHANGED phase
       ELSE k' = 0 /\ phase' = "exit"
    /\ UNCHANGED <<bit, byte, wq, nrd, rx, exc, begun, ends, nfaults>>
    /\ envfix /\ codecfix

\* the exception of a GPIO call unwinds: out of a with-body through __exit__,
\* which runs _end_tx; out of _start_tx or _end_tx straight to the caller
Unwind ==
    /\ exc' = IF phase \in {"write", "read"} THEN "body" ELSE phase
    /\ phase' = IF phase \in {"write", "read"} THEN WithBodyRaises ELSE WithFrameRaises
    /\ ends' = IF phase \in {"write", "read"} /\ WithBodyRaises = "end" THEN ends + 1 ELSE ends
    /\ k' = IF phase \in {"write", "read"} /\ WithBodyRaises = "end" THEN 1 ELSE 0
    /\ bit' = 0 /\ byte' = 0 /\ wq' = <<>> /\ nrd' = 0 /\ rx' = <<>>
    /\ UNCHANGED begun

\* the pin-control channel fails during the pending GPIO call
PinFault ==
    /\ channel = "failing"
    /\ InCall /\ Accepted(Pending) /\ nfaults < MaxFaults
    /\ \E applied \in BOOLEAN : PinEffect(Pending, applied)
    /\ issued' = issued + 1
    /\ nfaults' = nfaults + 1
    /\ Unwind
    /\ envfix /\ codecfix

\* the backend refuses the pending GPIO call
PinReject ==
    /\ InCall /\ ~Accepted(Pending)
    /\ PinEffect(Pending, FALSE)
    /\ issued' = issued + 1
    /\ Unwind
    /\ UNCHANGED nfaults
    /\ envfix /\ codecfix

\* ------------------------------------------------------------------------
\* The driver: calls and returns of the public methods
\* ------------------------------------------------------------------------
\* what becomes of the instance when __init__ raises: the constructor call
\* raises too, so the caller is never handed the object
AfterInitRaisesBug == "ready"

AfterInitRaises == "failed"

\* the locals and the per-operation observers are dropped on return
Leave ==
    /\ op' = "none" /\ arg' = NoArg /\ tx' = 0 /\ phase' = "idle" /\ k' = 0
    /\ bit' = 0 /\ byte' = 0 /\ wq' = <<>> /\ nrd' = 0 /\ rx' = <<>>
    /\ exc' = "none" /\ begun' = FALSE /\ ends' = 0 /\ issued' = 0
    /\ txlog' = <<>> /\ ram0' = <<>> /\ pinlog' = NoLog
    /\ UNCHANGED <<mode, level, chip, regs, ram, wire, ncleanup, nops, nfaults>>
    /\ codecfix

\* __init__: the first with-block is left, the second is entered (line 46)
InitNextWith ==
    /\ op = "init" /\ tx = 1 /\ phase = "exit" /\ exc = "none"
    /\ tx' = 2
    /\ EnterWith
    /\ UNCHANGED <<mode, level, chip, regs, ram, wire, txlog, life, ncleanup, op, arg,
                   issued, result, lastdt, ram0, nops, nfaults, pinlog>>
    /\ codecfix

\* __init__ returns: the caller holds a ready instance
InitReturn ==
    /\ op = "init" /\ tx = 2 /\ phase = "exit" /\ exc = "none"
    /\ life' = "ready"
    /\ result' = [op |-> "init", status |-> "returned", value |-> <<>>]
    /\ Leave
    /\ UNCHANGED lastdt

\* an exception raised by a GPIO call leaves the method (no try/except in the
\* driver)
Raise ==
    /\ phase = "exit" /\ exc # "none"
    /\ life' = IF op = "init" THEN AfterInitRaises ELSE life
    /\ result' = [op |-> op, status |-> "raised", value |-> [error |-> "PinAccessError"]]
    /\ Leave
    /\ UNCHANGED lastdt

OpLimit ==
    IF channel = "failing" THEN MaxFaultOps
    ELSE IF channel = "shared" THEN MaxSharedOps ELSE MaxOps

\* what a call would wait for if the driver held a lock around its methods
CanCallLocked == life = "ready" /\ op = "none" /\ nops < OpLimit /\ parked.op = "none"

\* the methods take no lock: nothing of another thread is looked at
CanCall == life = "ready" /\ op = "none" /\ nops < OpLimit

Call(name, a) ==
    /\ CanCall
    /\ op' = name /\ arg' = a /\ tx' = 1
    /\ EnterWith
    /\ issued' = 0 /\ txlog' = <<>> /\ ram0' = ram /\ pinlog' = NoLog
    /\ result' = NoResult
    /\ nops' = nops + 1
    /\ UNCHANGED <<mode, level, chip, regs, ram, wire, life, ncleanup, nfaults>>
    /\ codecfix

CallReadRam == Call("read_ram", NoArg) /\ UNCHANGED lastdt

CallWriteRam == \E blk \in RamInputs : Call("write_ram", blk) /\ UNCHANGED lastdt

CallReadDatetime == Call("read_datetime", NoArg) /\ UNCHANGED lastdt

\* line 168 runs before the with-block: regs is computed from dt
CallWriteDatetime == \E dt \in DateInputs : Call("write_datetime", dt) /\ lastdt' = NoDate

\* read_ram line 128
ReturnReadRam ==
    /\ op = "read_ram" /\ phase = "exit" /\ exc = "none"
    /\ result' = [op |-> op, status |-> "returned", value |-> rx]
    /\ Leave
    /\ UNCHANGED <<life, lastdt>>

\* write_ram falls off its end
ReturnWriteRam ==
    /\ op = "write_ram" /\ phase = "exit" /\ exc = "none"
    /\ result' = [op |-> op, status |-> "returned", value |-> <<>>]
    /\ Leave
    /\ UNCHANGED <<life, lastdt>>

\* read_datetime line 158: strptime returns the datetime or raises ValueError
ReturnReadDatetime ==
    /\ op = "read_datetime" /\ phase = "exit" /\ exc = "none"
    /\ LET v == DecodeRegs(rx)
       IN  result' = [op |-> op,
                      status |-> IF IsError(v) THEN "raised" ELSE "returned",
                      value |-> v]
    /\ Leave
    /\ UNCHANGED <<life, lastdt>>

\* write_datetime falls off its end
ReturnWriteDatetime ==
    /\ op = "write_datetime" /\ phase = "exit" /\ exc = "none"
    /\ result' = [op |-> op, status |-> "returned", value |-> <<>>]
    /\ lastdt' = arg
    /\ Leave
    /\ UNCHANGED life

\* __del__ called on an instance the caller goes on holding (rtc.__del__())
Teardown ==
    /\ life = "ready" /\ op = "none" /\ ncleanup < MaxTeardowns
    /\ PinEffect(del_cleanup, TRUE)
    /\ ncleanup' = ncleanup + 1
    /\ result' = [op |-> "__del__", status |-> "returned", value |-> <<>>]
    /\ UNCHANGED <<life, op, arg, tx, phase, k, bit, byte, wq, nrd, rx, exc, begun,
                   ends, issued, lastdt, ram0, nops, nfaults>>
    /\ codecfix

\* the last reference goes away (at once, when __init__ raised): the
\* interpreter runs __del__ and the instance is gone
Finalize ==
    /\ life \in {"ready", "failed"} /\ op = "none"
    /\ PinEffect(del_cleanup, TRUE)
    /\ ncleanup' = ncleanup + 1
    /\ life' = "dead"
    /\ UNCHANGED <<op, arg, tx, phase, k, bit, byte, wq, nrd, rx, exc, begun, ends,
                   issued, result, lastdt, ram0, nops, nfaults>>
    /\ codecfix

Next ==
    \/ Construct \/ InitSetup \/ StartTx
    \/ WriteByteSetup \/ WriteBitClkLow \/ WriteBitData \/ WriteBitClkHigh
    \/ ReadByteSetup \/ ReadBitClkHigh \/ ReadBitClkLow \/ ReadBitSample
    \/ EndTx \/ PinReject
    \/ InitNextWith \/ InitReturn \/ Raise
    \/ CallReadRam \/ CallWriteRam \/ CallReadDatetime \/ CallWriteDatetime
    \/ ReturnReadRam \/ ReturnWriteRam \/ ReturnReadDatetime \/ ReturnWriteDatetime
    \/ Teardown \/ Finalize

Spec == Init /\ [][Next]_vars

FaultNext == Next \/ PinFault

SpecFault == FaultInit /\ [][FaultNext]_vars

\* ------------------------------------------------------------------------
\* SpecShared: two threads hold the same instance and call its methods with no
\* lock around the calls.  The variables op .. ram0 are the locals of the
\* thread that is running, `parked` holds those of the other one.  Pins and
\* chip are shared.  The interpreter can switch threads wherever a thread
\* blocks; the model switches in a subset of those places: between two
\* methods, and in the self._sleep() that follows the first clock call of one
\* iteration of a byte loop (lines 84 and 107).  The callers use
\* read_datetime and write_datetime.
\* ------------------------------------------------------------------------
Frame == [op |-> op, arg |-> arg, tx |-> tx, phase |-> phase, k |-> k, bit |-> bit,
          byte |-> byte, wq |-> wq, nrd |-> nrd, rx |-> rx, exc |-> exc,
          begun |-> begun, ends |-> ends, issued |-> issued, ram0 |-> ram0]

SharedInit == BusInit /\ channel = "shared" /\ CodecOff /\ LoopOff

\* the loop iterations in whose first _sleep() the model switches threads
SwitchBits == {4}

\* the running thread is between two methods, or asleep in the middle of a byte
SwitchPoint ==
    \/ op = "none"
    \/ phase \in {"write", "read"} /\ k = 2 /\ bit \in SwitchBits

Switch ==
    /\ channel = "shared" /\ life = "ready" /\ nswitch < MaxSwitches
    /\ SwitchPoint
    /\ op # "none" \/ parked.op # "none"
    /\ parked' = Frame
    /\ op' = parked.op /\ arg' = parked.arg /\ tx' = parked.tx
    /\ phase' = parked.phase /\ k' = parked.k /\ bit' = parked.bit
    /\ byte' = parked.byte /\ wq' = parked.wq /\ nrd' = parked.nrd
    /\ rx' = parked.rx /\ exc' = parked.exc /\ begun' = parked.begun
    /\ ends' = parked.ends /\ issued' = parked.issued /\ ram0' = parked.ram0
    /\ nswitch' = nswitch + 1
    /\ UNCHANGED <<mode, level, chip, regs, ram, wire, txlog, life, ncleanup, result,
                   lastdt, nops, nfaults, channel, pinlog, codecvars, loopvars>>

SharedNext ==
    \/ Construct \/ InitSetup \/ StartTx
    \/ WriteByteSetup \/ WriteBitClkLow \/ WriteBitData \/ WriteBitClkHigh
    \/ ReadByteSetup \/ ReadBitClkHigh \/ ReadBitClkLow \/ ReadBitSample
    \/ EndTx \/ PinReject
    \/ InitNextWith \/ InitReturn \/ Raise
    \/ CallReadDatetime \/ CallWriteDatetime
    \/ ReturnReadDatetime \/ ReturnWriteDatetime
    \/ Switch

SpecShared == SharedInit /\ [][SharedNext]_vars

\* ------------------------------------------------------------------------
\* SpecCodec: the register frame codec of write_datetime and read_datetime on
\* its own, from a datetime or from an arbitrary register frame
\* ------------------------------------------------------------------------
CodecDates ==
    {DateTime(y, md[1], md[2], t[1], t[2], t[3]) :
        y \in 2000..2099,
        md \in {<<1, 15>>, <<2, 28>>, <<12, 31>>},
        t \in {<<10, 30, 45>>, <<0, 0, 0>>, <<23, 59, 59>>}}
    \cup {DateTime(2024, md[1], md[2], 10, 30, 45) :
            md \in {x \in (1..12) \X (1..31) : x[2] <= DaysInMonth(2024, x[1])}}
    \cup {DateTime(2024, 1, 15, h, 30, 45) : h \in 0..23}
    \cup {DateTime(2024, 1, 15, 10, mi, 45) : mi \in 0..59}
    \cup {DateTime(2024, 1, 15, 10, 30, se) : se \in 0..59}

\* 45 30 10 15 01 1 24, 59 59 23 28 02 7 99 and 00 00 00 31 12 3 68 in BCD
BaseFrames == {<<69, 48, 16, 21, 1, 1, 36>>, <<89, 89, 35, 40, 2, 7, 153>>,
               <<0, 0, 0, 49, 18, 3, 104>>}

\* a base frame with any byte at one of its 7 positions
CodecFrames == {[f EXCEPT ![pos] = b] : f \in BaseFrames, pos \in 1..REG_SIZE, b \in 0..255}

CodecInit ==
    /\ BusInit /\ channel = "reliable" /\ LoopOff
    /\ cres = NoDate
    /\ \/ cstage = "date" /\ cfrom = "date" /\ cdt \in CodecDates /\ cframe = <<>>
       \/ cstage = "frame" /\ cfrom = "frame" /\ cdt = NoDate /\ cframe \in CodecFrames

\* write_datetime line 168: the 7 bytes that land in the calendar registers
CodecEncode ==
    /\ cstage = "date"
    /\ cframe' = SubSeq(EncodeRegs(cdt), 1, REG_SIZE)
    /\ cstage' = "frame"
    /\ UNCHANGED <<cfrom, cdt, cres, busvars, loopvars>>

\* read_datetime line 158
CodecDecode ==
    /\ cstage = "frame"
    /\ cres' = DecodeRegs(cframe)
    /\ cstage' = "decoded"
    /\ UNCHANGED <<cfrom, cdt, cframe, busvars, loopvars>>

CodecNext == CodecEncode \/ CodecDecode

SpecCodec == CodecInit /\ [][CodecNext]_vars

\* ------------------------------------------------------------------------
\* SpecLoop: the data levels _write_byte drives, one per rising clock edge, fed
\* back in the same order as the levels _read_byte samples
\* ------------------------------------------------------------------------
LoopInit ==
    /\ BusInit /\ channel = "reliable" /\ CodecOff
    /\ lstage = "write" /\ lin \in 0..255 /\ lbyte = lin /\ lbit = 0 /\ lline = <<>>

\* one iteration of _write_byte's loop (lines 104-113): the level on the data
\* pin when the clock rises, then the shift
LoopWriteBit ==
    /\ lstage = "write"
    /\ lline' = Append(lline, write_bit(lbyte)[2].val)
    /\ IF lbit < 7
       THEN lbyte' = ShiftRight(lbyte) /\ lbit' = lbit + 1 /\ UNCHANGED lstage
       ELSE lbyte' = 0 /\ lbit' = 0 /\ lstage' = "read"
    /\ UNCHANGED <<lin, busvars, codecvars>>

\* one iteration of _read_byte's loop (lines 81-90) on the looped-back levels
LoopReadBit ==
    /\ lstage = "read"
    /\ lbyte' = Accumulate(lbyte, lbit, lline[lbit + 1])
    /\ IF lbit < 7
       THEN lbit' = lbit + 1 /\ UNCHANGED lstage
       ELSE lbit' = 0 /\ lstage' = "done"
    /\ UNCHANGED <<lin, lline, busvars, codecvars>>

LoopNext == LoopWriteBit \/ LoopReadBit

SpecLoop == LoopInit /\ [][LoopNext]_vars

\* ------------------------------------------------------------------------
\* Properties
\* ------------------------------------------------------------------------

\* C1: within every driver operation (the two writes of __init__,
\* read_datetime, write_datetime, read_ram, write_ram) the reset pin is high
\* before and after every change of the clock level, and the reset pin goes
\* from high to low only when the data pin is configured as input.
C1_ResetFramesClock ==
    [][op # "none" =>
          /\ (level'.clk # level.clk) => (level.rst = 1 /\ level'.rst = 1)
          /\ (level.rst = 1 /\ level'.rst = 0) => mode.io = "in"]_vars

\* a burst read has clocked its 7 bytes and reset is about to be driven low
\* with the data pin already switched to input
C1_Witness ==
    /\ op = "read_datetime" /\ phase = "end" /\ k = 3 /\ Len(rx) = 7
    /\ level.rst = 1 /\ level.clk = 0 /\ mode.io = "in"

\* C2: in every with-block whose _start_tx has returned, _end_tx is entered
\* exactly once on every exit path (never while the body runs, never twice);
\* unless _end_tx itself raises it leaves the data pin input, clock low and
\* reset low; once a GPIO call has raised the body makes no further GPIO call;
\* and the exception reaches the caller of the operation.
C2_EndOnce ==
    /\ ends <= 1
    /\ ~begun => ends = 0
    /\ (begun /\ ends = 0) => phase \in {"write", "read"}
    /\ (begun /\ phase = "exit") => ends = 1
    /\ (begun /\ phase = "exit" /\ exc \in {"none", "body"}) =>
           (mode.io = "in" /\ level.clk = 0 /\ level.rst = 0)

C2_NoRetry == (exc # "none") => (phase' \notin {"write", "read"})

C2_Propagates ==
    (phase = "exit" /\ exc # "none") =>
        (op' = "none" /\ result'.op = op /\ result'.status = "raised"
         /\ result'.value = [error |-> "PinAccessError"])

C2_EndRunsOnce == [](C2_EndOnce) /\ [][C2_NoRetry /\ C2_Propagates]_vars

\* read_ram's body raised partway through its 31 reads and _end_tx has run
C2_Witness ==
    /\ op = "read_ram" /\ phase = "exit" /\ exc = "body" /\ begun /\ ends = 1
    /\ level.rst = 0 /\ mode.io = "in" /\ txlog = << <<255>> >>

\* C3: with no GPIO failure and no teardown, a read_datetime that follows a
\* write_datetime(v) returns a datetime (it does not raise) whose second,
\* minute, hour, day, month and two-digit year are those of v.
C3_WriteThenRead ==
    (result.op = "read_datetime" /\ lastdt # NoDate /\ nfaults = 0 /\ ncleanup = 0) =>
        /\ result.status = "returned"
        /\ ~IsError(result.value)
        /\ result.value.second = lastdt.second
        /\ result.value.minute = lastdt.minute
        /\ result.value.hour = lastdt.hour
        /\ result.value.day = lastdt.day
        /\ result.value.month = lastdt.month
        /\ result.value.year % 100 = lastdt.year % 100

\* C4: decoding the 7 register bytes that encode a datetime of 2000..2099
\* gives back its second, minute, hour, day, month, weekday and two-digit
\* year.
C4_RoundTrip ==
    (cstage = "decoded" /\ cfrom = "date") =>
        /\ ~IsError(cres)
        /\ cres.second = cdt.second
        /\ cres.minute = cdt.minute
        /\ cres.hour = cdt.hour
        /\ cres.day = cdt.day
        /\ cres.month = cdt.month
        /\ IsoWeekday(cres) = IsoWeekday(cdt)
        /\ cres.year % 100 = cdt.year % 100

\* the value of a byte read as two BCD digits
BcdValue(b) == ((b \div 16) * 10) + (b % 16)

\* a register frame with a nibble above 9, or a field outside its range
FrameInvalid(f) ==
    \/ \E j \in 1..7 : (f[j] \div 16 > 9 \/ f[j] % 16 > 9)
    \/ BcdValue(f[1]) > 59
    \/ BcdValue(f[2]) > 59
    \/ BcdValue(f[3]) > 23
    \/ BcdValue(f[4]) \notin 1..31
    \/ BcdValue(f[5]) \notin 1..12
    \/ BcdValue(f[6]) \notin 1..7

\* C5: decoding a register frame that has a nibble above 9 or a field outside
\* its range, at any of the 7 positions, raises; and a datetime that is
\* returned carries exactly the BCD values of the bytes (nothing wrapped or
\* clamped).
C5_DecodeRejects ==
    (cstage = "decoded" /\ cfrom = "frame") =>
        /\ FrameInvalid(cframe) => IsError(cres)
        /\ ~IsError(cres) =>
              /\ cres.second = BcdValue(cframe[1])
              /\ cres.minute = BcdValue(cframe[2])
              /\ cres.hour = BcdValue(cframe[3])
              /\ cres.day = BcdValue(cframe[4])
              /\ cres.month = BcdValue(cframe[5])
              /\ cres.year % 100 = BcdValue(cframe[7])

\* the frame 45 30 10 15 1A 1 24 (an invalid digit in the month) was decoded
C5_Witness ==
    /\ cstage = "decoded" /\ cfrom = "frame"
    /\ cframe = <<69, 48, 16, 21, 26, 1, 36>> /\ IsError(cres)

\* C6: with no GPIO failure and before any teardown, write_ram(block) clocks
\* out, in one transaction, 0xFE and then the first min(len(block), 31) bytes of block in order, and
\* returns; the chip's cells below that count hold the block's bytes and the
\* cells from it on hold what they held when write_ram was called.
C6_WriteRamTruncates ==
    (op = "write_ram" /\ phase = "exit" /\ nfaults = 0 /\ ncleanup = 0) =>
        LET n == IF Len(arg) < 31 THEN Len(arg) ELSE 31
        IN  /\ exc = "none"
            /\ txlog = << <<254>> \o SubSeq(arg, 1, n) >>
            /\ \A j \in 1..31 : ram[j] = IF j <= n THEN arg[j] ELSE ram0[j]

\* a 40-byte block was written: 32 bytes went out
C6_Witness ==
    /\ op = "write_ram" /\ phase = "exit" /\ exc = "none" /\ nfaults = 0
    /\ Len(arg) = 40 /\ Len(txlog[1]) = 32 /\ ram[31] = arg[31]

\* cells 11..31 kept the bytes of an earlier 40-byte block after a 10-byte one
C6_WitnessShort ==
    /\ op = "write_ram" /\ phase = "exit" /\ exc = "none" /\ nfaults = 0
    /\ Len(arg) = 10 /\ Len(txlog[1]) = 11 /\ ram[11] = Block(40)[11] /\ ram[10] = arg[10]

\* C7: a data operation called after teardown issues no GPIO call.
C7_GatedAfterTeardown == (ncleanup > 0 /\ op \in DataOps) => issued = 0

\* C8: for every byte b, the eight levels _write_byte(b) drives are the bits
\* of b from the least significant up, and _read_byte fed with them gives b.
C8_Loopback ==
    /\ \A j \in 1..Len(lline) : lline[j] = (lin \div (2 ^ (j - 1))) % 2
    /\ lstage = "done" => (lbyte = lin /\ Len(lline) = 8)

\* 0x4D written and read back
C8_Witness == lstage = "done" /\ lin = 77 /\ lbyte = 77 /\ lline = <<1, 0, 1, 1, 0, 0, 1, 0>>

PinsLow == [clk |-> 0, io |-> 0, rst |-> 0]

\* C9: __init__ first configures clock and reset as outputs at low level, then
\* clocks out 0x8E 0x00 in one transaction, then 0x90 0x00 in a second one;
\* the instance becomes ready only at the end of that, and a data operation
\* runs only on a ready instance.
C9_InitOrder ==
    /\ (op = "init" /\ phase = "start" /\ tx = 1 /\ k = 1) =>
           (issued = 1 /\ mode.clk = "out" /\ mode.rst = "out" /\ mode.io = "unset"
            /\ level.clk = 0 /\ level.rst = 0 /\ txlog = <<>>)
    /\ (op = "init" /\ phase \in {"start", "write", "read", "end"}) =>
           (mode.clk = "out" /\ mode.rst = "out")
    /\ (op = "init" /\ tx = 1 /\ phase = "exit" /\ exc = "none") =>
           txlog = << <<142, 0>> >>
    /\ (op = "init" /\ tx = 2) =>
           (Len(txlog) >= 1 /\ txlog[1] = <<142, 0>>
            /\ (phase \in {"start", "write", "read"} => Len(txlog) = 1))
    /\ (op = "init" /\ tx = 2 /\ phase = "exit" /\ exc = "none") =>
           txlog = << <<142, 0>>, <<144, 0>> >>
    /\ op \in DataOps => life = "ready"
    /\ life = "uninit" => (level = PinsLow /\ issued = 0)

C9_ReadyAfterBoth ==
    (life # "ready" /\ life' = "ready") =>
        (op = "init" /\ tx = 2 /\ phase = "exit" /\ exc = "none" /\ level.rst = 0
         /\ txlog = << <<142, 0>>, <<144, 0>> >>)

C9_Construction == [](C9_InitOrder) /\ [][C9_ReadyAfterBoth]_vars

\* __init__ is about to return after both transactions
C9_Witness ==
    /\ op = "init" /\ tx = 2 /\ phase = "exit" /\ exc = "none"
    /\ txlog = << <<142, 0>>, <<144, 0>> >> /\ regs[8] = 0 /\ regs[9] = 0

\* C10: once a GPIO call has raised during __init__, the instance never becomes
\* ready and no data operation ever runs on it.
C10_FailedStep ==
    /\ (op = "init" /\ exc # "none") => life' \in {"init", "failed"}
    /\ life = "failed" => life' \in {"failed", "dead"}
    /\ life = "dead" => life' = "dead"
    /\ life \in {"failed", "dead"} => (op' = "none" /\ issued' = issued)

C10_FailedNeverReady ==
    /\ [](life \in {"failed", "dead"} => (op = "none" /\ phase = "idle"))
    /\ [][C10_FailedStep]_vars

\* __init__ raised out of its second write and left a failed instance
C10_Witness ==
    /\ life = "failed" /\ op = "none" /\ nfaults = 1
    /\ result = [op |-> "init", status |-> "raised", value |-> [error |-> "PinAccessError"]]
    /\ regs[8] = 0


\* C11: however often __del__ runs on one instance, gpio.cleanup for the three
\* pins has been issued exactly once.
C11_ReleaseOnce == ncleanup > 0 => ncleanup = 1

\* the byte holding v as two BCD digits
BcdByte(v) == ((v \div 10) * 16) + (v % 10)

\* C12: with no GPIO failure and before any teardown, write_datetime(dt)
\* clocks out, in one transaction (one rise and one fall of reset, 80 rising
\* clock edges), exactly 10 bytes: 0xBE, the BCD bytes of second, minute, hour,
\* day of month, month, weekday and two-digit year, then 0x00 0x00.
C12_WriteDatetimeFrame ==
    (op = "write_datetime" /\ phase = "exit" /\ nfaults = 0 /\ ncleanup = 0) =>
        /\ exc = "none"
        /\ txlog = << <<190, BcdByte(arg.second), BcdByte(arg.minute), BcdByte(arg.hour),
                        BcdByte(arg.day), BcdByte(arg.month), BcdByte(IsoWeekday(arg)),
                        BcdByte(arg.year % 100), 0, 0>> >>
        /\ pinlog.sel = 1 /\ pinlog.desel = 1 /\ pinlog.rise = 80

\* Saturday 2005-12-31 23:59:58 went out as BE 58 59 23 31 12 06 05 00 00
C12_Witness ==
    /\ op = "write_datetime" /\ phase = "exit" /\ exc = "none"
    /\ txlog = << <<190, 88, 89, 35, 49, 18, 6, 5, 0, 0>> >>
    /\ SubSeq(regs, 1, 8) = <<88, 89, 35, 49, 18, 6, 5, 0>>

\* the two burst reads
ReadOps == {"read_datetime", "read_ram"}

\* C13: with no GPIO failure and before any teardown, a burst read clocks out
\* one command byte and then samples the data pin 8 times per byte for an exact
\* number of bytes, all inside one transaction: read_datetime sends 0xBF and
\* reads 7 bytes, read_ram sends 0xFF and reads 31 bytes, which are the chip's
\* cells in order and are what read_ram returns; the data pin is driven 8 times
\* (the command byte) and never after the first sample.
C13_BurstRead ==
    /\ (op \in ReadOps /\ phase = "exit" /\ nfaults = 0 /\ ncleanup = 0) =>
           LET n == IF op = "read_ram" THEN 31 ELSE 7
           IN  /\ exc = "none"
               /\ txlog = << <<IF op = "read_ram" THEN 255 ELSE 191>> >>
               /\ pinlog.sel = 1 /\ pinlog.desel = 1
               /\ pinlog.drive = 8 /\ pinlog.samp = 8 * n
               /\ Len(rx) = n
               /\ rx = IF op = "read_ram" THEN ram ELSE SubSeq(regs, 1, 7)
    /\ (op \in ReadOps /\ nfaults = 0 /\ pinlog.samp > 0) =>
           (pinlog.drive = 8 /\ (phase = "read" => mode.io = "in"))
    /\ (result.op = "read_ram" /\ result.status = "returned") => result.value = ram

\* read_ram returned the 31 bytes an earlier write_ram of 40 bytes had stored
C13_Witness ==
    /\ result.op = "read_ram" /\ result.status = "returned"
    /\ result.value = SubSeq(Block(40), 1, 31)

\* C14: with one caller and no GPIO failure, a transaction is open (reset
\* high) only inside a data operation; within one data operation reset rises
\* at most once and falls at most once, after it rose; _start_tx is never
\* entered while reset is high; and an operation on an instance not torn down
\* leaves its with-block having run _start_tx once and _end_tx once, with
\* exactly one rise and one fall of reset.
C14_OneTransaction ==
    /\ op = "none" => level.rst = 0
    /\ phase = "start" => level.rst = 0
    /\ op \in DataOps =>
           /\ pinlog.sel <= 1 /\ pinlog.desel <= pinlog.sel /\ ends <= 1
           /\ level.rst = 1 <=> (pinlog.sel = 1 /\ pinlog.desel = 0)
           /\ begun => pinlog.sel = 1
           /\ pinlog.desel = 1 => ends = 1
    /\ (op \in DataOps /\ phase = "exit" /\ ncleanup = 0) =>
           (begun /\ ends = 1 /\ pinlog.sel = 1 /\ pinlog.desel = 1 /\ Len(txlog) = 1)

\* the second operation of a run is inside its one transaction
C14_Witness ==
    /\ nops = 2 /\ op = "read_datetime" /\ phase = "read" /\ Len(rx) = 3
    /\ level.rst = 1 /\ pinlog.sel = 1 /\ pinlog.desel = 0 /\ begun /\ ends = 0

\* C15: whenever the driver is about to sample the data pin, the pin's most
\* recent configuration is input; whenever it is about to write a level to the
\* data pin, the pin's most recent configuration is output.
C15_Direction ==
    InCall =>
        /\ IsSample(Pending) => mode.io = "in"
        /\ IsDrive(Pending) => mode.io = "out"

\* a read_datetime that follows a write_datetime has sent its command byte with
\* the pin as output and is about to take its first sample with the pin as input
C15_Witness ==
    /\ nops = 2 /\ op = "read_datetime" /\ lastdt # NoDate
    /\ phase = "read" /\ k = 3 /\ pinlog.samp = 0 /\ pinlog.drive = 8
    /\ mode.io = "in"

\* the bytes _write_byte has finished since the operation started
BytesWritten ==
    (IF op = "init" THEN 2 * (tx - 1) ELSE 0) + (Len(Body.w) - Len(wq) - 1)

\* C16: in _write_byte the data level is written while the clock is low; the
\* clock is then raised from low with nothing between the two calls; the data
\* pin's level never changes while the clock is high; and each byte written
\* makes exactly 8 rising clock edges (one per loop iteration).
C16_WriteBitOrder ==
    /\ (phase = "write" /\ IsDrive(Pending)) => level.clk = 0
    /\ (phase = "write" /\ Pending = Output("clk", 1)) =>
           (level.clk = 0 /\ pinlog.mark = "drive" /\ pinlog.since = <<>>)
    /\ phase = "write" => pinlog.rise = (8 * BytesWritten) + bit

C16_DataStable ==
    (op # "none" /\ level'.io # level.io) => (level.clk = 0 /\ level'.clk = 0)

C16_WriteTiming == [](C16_WriteBitOrder) /\ [][C16_DataStable]_vars

\* write_datetime is about to raise the clock for the last bit of its tenth byte
C16_Witness ==
    /\ op = "write_datetime" /\ phase = "write" /\ k = 3 /\ bit = 7 /\ wq = <<>>
    /\ pinlog.rise = 79 /\ pinlog.drive = 80 /\ level.clk = 0

\* the other thread is inside its transaction: its _start_tx has returned and
\* its _end_tx has not been entered
ParkedOpen == parked.op \in DataOps /\ parked.begun /\ parked.ends = 0

\* C17: the methods wait for nothing: a thread that holds the ready instance
\* and is in no method can enter read_datetime or write_datetime at once, also
\* while the other thread is inside its transaction; and _start_tx, once
\* entered, goes on whether or not reset is already high.
C17_NoExclusion ==
    /\ (channel = "shared" /\ life = "ready" /\ op = "none" /\ nops < MaxSharedOps) =>
           (ENABLED CallReadDatetime /\ ENABLED CallWriteDatetime)
    /\ (channel = "shared" /\ ParkedOpen /\ phase = "start" /\ Accepted(Pending)) =>
           ENABLED StartTx

\* both transactions were open at once, and the end of read_datetime's has
\* lowered reset while the other thread is in the middle of a byte of its
\* write_datetime
C17_Witness ==
    /\ ParkedOpen /\ parked.op = "write_datetime"
    /\ parked.phase = "write" /\ parked.k = 2 /\ parked.bit = 4 /\ Len(parked.wq) = 5
    /\ op = "read_datetime" /\ begun /\ ends = 1 /\ phase = "exit" /\ exc = "none"
    /\ level.rst = 0 /\ Len(rx) = 7

\* a read_datetime that was interrupted goes on sampling with reset low, after
\* the other thread's read_datetime has ended the transaction under it
C17_WitnessResumed ==
    /\ nswitch = 2 /\ op = "read_datetime" /\ phase = "read" /\ k = 3 /\ Len(rx) = 6
    /\ parked.op = "none" /\ result.op = "read_datetime" /\ level.rst = 0

\* C18: every year register 00..99 decodes to 2000 + its BCD value, and a
\* date of 2000..2099 that is encoded and decoded keeps its full year.
C18_FixedCentury ==
    /\ (cstage = "decoded" /\ cfrom = "frame" /\ ~IsError(cres)) =>
           cres.year = 2000 + BcdValue(cframe[7])
    /\ (cstage = "decoded" /\ cfrom = "date") =>
           (~IsError(cres) /\ cres.year = cdt.year)

\* C19: while the caller holds a ready instance and no method is running,
\* after __init__ or a data operation has returned, or read_datetime has raised
\* the ValueError of its decoding, clock and reset are low and the data pin is
\* configured as input.
C19_IdleBus ==
    (/\ life = "ready" /\ op = "none"
     /\ result.op \in DataOps \cup {"init"}
     /\ \/ result.status = "returned"
        \/ result.status = "raised" /\ result.value = ValueError) =>
        (level.clk = 0 /\ level.rst = 0 /\ mode.io = "in")

\* read_datetime raised ValueError on the year 05 and left the bus idle
C19_Witness ==
    /\ life = "ready" /\ op = "none" /\ result.op = "read_datetime"
    /\ result.status = "raised" /\ result.value = ValueError /\ regs[7] = 5
    /\ level.clk = 0 /\ level.rst = 0 /\ mode.io = "in"

\* the clock edges among the events of a log
IsClockEdge(e) == e \in {"rise", "fall"}
ClockEdges(evs) == SelectSeq(evs, IsClockEdge)

\* C20: in read_datetime and read_ram, when the first sample is about to be
\* taken, what the pins saw since the last bit of the command byte was written
\* is its rising clock edge (the 8th), then the data pin set to input, then one
\* falling edge; the first clk-high call of the first _read_byte finds the
\* clock high; and when any later sample is about to be taken, the clock edges
\* since the previous sample are one rising edge followed by one falling edge,
\* also when a _read_byte call started in between.
C20_ReadAlignment ==
    /\ (op \in ReadOps /\ phase = "read" /\ IsSample(Pending)) =>
           IF pinlog.samp = 0
           THEN /\ pinlog.mark = "drive" /\ pinlog.rise = 8
                /\ pinlog.since = <<"rise", "in", "fall">>
           ELSE /\ pinlog.mark = "sample"
                /\ ClockEdges(pinlog.since) = <<"rise", "fall">>
                /\ pinlog.since = IF bit = 0 THEN <<"in", "rise", "fall">>
                                  ELSE <<"rise", "fall">>
    /\ (op \in ReadOps /\ phase = "read" /\ pinlog.samp = 0
          /\ Pending = Output("clk", 1)) => level.clk = 1

\* read_ram is about to take its first sample
C20_Witness ==
    /\ op = "read_ram" /\ phase = "read" /\ k = 3 /\ bit = 0 /\ rx = <<>>
    /\ pinlog.samp = 0 /\ pinlog.since = <<"rise", "in", "fall">> /\ level.clk = 0

\* read_ram is about to take the first sample of its second byte
C20_WitnessNextByte ==
    /\ op = "read_ram" /\ phase = "read" /\ k = 3 /\ bit = 0 /\ Len(rx) = 1
    /\ pinlog.samp = 8 /\ pinlog.since = <<"in", "rise", "fall">>

=============================================================================
